---- MODULE Spec2Model ----
(***************************************************************************)
(* Model of the client-side error normalisation of the frontend:           *)
(*   - getStatusMessage / extractErrorMessage  (error-handler.ts)          *)
(*   - class BillingError                      (lib/api.ts)                *)
(*   - createClient                            (lib/supabase/client)       *)
(*   - the API invocation wrapper's timeout race (api-client.ts)           *)
(* JavaScript values are modelled as tagged records of one fixed shape, so *)
(* that truthiness, typeof, property access on null/undefined (TypeError)  *)
(* and instanceof are computed the way the language computes them.         *)
(***************************************************************************)
EXTENDS Integers, Sequences, FiniteSets, TLC

VARIABLES
    pc,         \* position of the component under analysis
    error,      \* the value handed to extractErrorMessage
    result,     \* what extractErrorMessage returned (or Throw)
    args,       \* arguments of new BillingError(status, detail, message)
    mutated,    \* a field of the BillingError was assigned after construction
    env,        \* process.env values read by createClient
    client,     \* arguments createClient handed to createBrowserClient
    calls       \* in-flight invocations of the API wrapper

vars == <<pc, error, result, args, mutated, env, client, calls>>

----------------------------------------------------------------------------
(* JavaScript values.  A leaf is a primitive or an object none of whose     *)
(* fields matter; an inner value is a leaf or an object with the fields    *)
(* status and message; a top value also has response, error, detail and a  *)
(* class (its prototype chain).                                            *)

Leaf(t, s, n) == [t |-> t, s |-> s, n |-> n]
Undef    == Leaf("undefined", "", 0)
Null     == Leaf("null", "", 0)
Str(x)   == Leaf("string", x, 0)
Num(k)   == Leaf("number", "", k)
Bool(b)  == Leaf("boolean", "", IF b THEN 1 ELSE 0)
EmptyObj == Leaf("object", "", 0)

Inner(t, s, n, status, message) ==
    [t |-> t, s |-> s, n |-> n, status |-> status, message |-> message]
Lift(l)  == Inner(l.t, l.s, l.n, Undef, Undef)
Obj1(status, message) == Inner("object", "", 0, status, message)
UndefI   == Lift(Undef)
NullI    == Lift(Null)
StrI(x)  == Lift(Str(x))
NumI(k)  == Lift(Num(k))
Throw    == Lift(Leaf("throw", "TypeError", 0))

Top(t, s, n, cls, response, status, message, err, detail) ==
    [t |-> t, s |-> s, n |-> n, cls |-> cls, response |-> response,
     status |-> status, message |-> message, error |-> err, detail |-> detail]
Prim(l) == Top(l.t, l.s, l.n, "", UndefI, UndefI, UndefI, UndefI, UndefI)
Obj(cls, response, status, message, err, detail) ==
    Top("object", "", 0, cls, response, status, message, err, detail)

IsThrow(v)   == v.t = "throw"
IsNullish(v) == v.t \in {"undefined", "null"}
IsString(v)  == v.t = "string"

\* ToBoolean: undefined, null, "", 0 and false are falsy; every object is truthy.
Truthy(v) ==
    CASE v.t = "object"  -> TRUE
      [] v.t = "string"  -> v.s # ""
      [] v.t = "number"  -> v.n # 0
      [] v.t = "boolean" -> v.n = 1
      [] OTHER           -> FALSE

\* v.f on a top value: a TypeError on null/undefined, undefined on a primitive.
GetTop(v, f) ==
    IF IsNullish(v) THEN Throw
    ELSE IF v.t = "object" THEN v[f] ELSE UndefI

\* v.f on an inner value (f is "status" or "message").
GetInner(v, f) ==
    IF IsThrow(v) THEN Throw
    ELSE IF IsNullish(v) THEN Throw
    ELSE IF v.t = "object" THEN Lift(v[f]) ELSE UndefI

\* The optional chain written as a plain member access.
OptGetTop_Plain(v, f) == GetTop(v, f)

\* v?.f : undefined instead of a TypeError when v is null/undefined.
OptGetTop(v, f)   == IF IsNullish(v) THEN UndefI ELSE GetTop(v, f)
OptGetInner(v, f) == IF IsNullish(v) THEN UndefI ELSE GetInner(v, f)

\* a || b
Or(a, b) == IF IsThrow(a) THEN Throw ELSE IF Truthy(a) THEN a ELSE b

\* c ? a : b, and the test of an if statement
If(c, a, b) == IF IsThrow(c) THEN Throw ELSE IF Truthy(c) THEN a ELSE b

\* x instanceof C, by the prototype chain BillingError -> Error -> Object
InstanceOf(v, c) ==
    /\ v.t = "object"
    /\ \/ v.cls = c
       \/ c = "Error" /\ v.cls = "BillingError"

----------------------------------------------------------------------------
(* error-handler.ts                                                        *)

\* The switch with the 408 case left out and 502/503 exchanged.
getStatusMessage_Slip(status) ==
    IF IsThrow(status) THEN Throw
    ELSE IF status.t # "number"
    THEN StrI("An unexpected error occurred. Please try again.")
    ELSE CASE status.n = 400 -> StrI("Invalid request. Please check your input and try again.")
           [] status.n = 401 -> StrI("Authentication required. Please sign in again.")
           [] status.n = 403 -> StrI("Access denied. You don't have permission to perform this action.")
           [] status.n = 404 -> StrI("The requested resource was not found.")
           [] status.n = 409 -> StrI("Conflict detected. The resource may have been modified by another user.")
           [] status.n = 422 -> StrI("Invalid data provided. Please check your input.")
           [] status.n = 429 -> StrI("Too many requests. Please wait a moment and try again.")
           [] status.n = 500 -> StrI("Server error. Our team has been notified.")
           [] status.n = 503 -> StrI("Service temporarily unavailable. Please try again in a moment.")
           [] status.n = 502 -> StrI("Service maintenance in progress. Please try again later.")
           [] status.n = 504 -> StrI("Request timeout. The server took too long to respond.")
           [] OTHER          -> StrI("An unexpected error occurred. Please try again.")

getStatusMessage(status) ==
    IF IsThrow(status) THEN Throw
    ELSE IF status.t # "number"
    THEN StrI("An unexpected error occurred. Please try again.")
    ELSE CASE status.n = 400 -> StrI("Invalid request. Please check your input and try again.")
           [] status.n = 401 -> StrI("Authentication required. Please sign in again.")
           [] status.n = 403 -> StrI("Access denied. You don't have permission to perform this action.")
           [] status.n = 404 -> StrI("The requested resource was not found.")
           [] status.n = 408 -> StrI("Request timeout. Please try again.")
           [] status.n = 409 -> StrI("Conflict detected. The resource may have been modified by another user.")
           [] status.n = 422 -> StrI("Invalid data provided. Please check your input.")
           [] status.n = 429 -> StrI("Too many requests. Please wait a moment and try again.")
           [] status.n = 500 -> StrI("Server error. Our team has been notified.")
           [] status.n = 502 -> StrI("Service temporarily unavailable. Please try again in a moment.")
           [] status.n = 503 -> StrI("Service maintenance in progress. Please try again later.")
           [] status.n = 504 -> StrI("Request timeout. The server took too long to respond.")
           [] OTHER          -> StrI("An unexpected error occurred. Please try again.")

\* The error field's message without the typeof test.
ErrorFieldMessage_NoTypeof(e) ==
    IF IsThrow(e) THEN Throw
    ELSE Or(GetInner(e, "message"), StrI("Unknown error"))

\* typeof error.error === 'string' ? error.error
\*                                 : error.error.message || 'Unknown error'
ErrorFieldMessage(e) ==
    IF IsThrow(e) THEN Throw
    ELSE IF IsString(e) THEN e
    ELSE Or(GetInner(e, "message"), StrI("Unknown error"))

\* The billing fallback chain with the generic message tried first.
BillingMessage_MessageFirst(e) ==
    Or(Or(GetTop(e, "message"), OptGetInner(GetTop(e, "detail"), "message")),
       StrI("Billing issue detected"))

\* error.detail?.message || error.message || 'Billing issue detected'
BillingMessage(e) ==
    Or(Or(OptGetInner(GetTop(e, "detail"), "message"), GetTop(e, "message")),
       StrI("Billing issue detected"))

extractErrorMessage(e) ==
    IF InstanceOf(e, "BillingError")
    THEN BillingMessage(e)
    ELSE IF InstanceOf(e, "Error")
    THEN GetTop(e, "message")
    ELSE If(OptGetTop(e, "response"),
            getStatusMessage(GetInner(GetTop(e, "response"), "status")),
         If(OptGetTop(e, "status"),
            getStatusMessage(GetTop(e, "status")),
         IF IsString(e) THEN Lift(Leaf(e.t, e.s, e.n))
         ELSE
         If(OptGetTop(e, "message"),
            GetTop(e, "message"),
         If(OptGetTop(e, "error"),
            ErrorFieldMessage(GetTop(e, "error")),
            StrI("An unexpected error occurred")))))

----------------------------------------------------------------------------
(* lib/api.ts                                                              *)

Digits == <<"0", "1", "2", "3", "4", "5", "6", "7", "8", "9">>

\* String(n) for an integer n, as a template literal formats it.
RECURSIVE NatToString(_)
NatToString(n) ==
    IF n < 10 THEN Digits[n + 1]
    ELSE NatToString(n \div 10) \o Digits[(n % 10) + 1]
NumToString(n) == IF n < 0 THEN "-" \o NatToString(0 - n) ELSE NatToString(n)

\* The constructor with detail.message preferred over the message argument.
BillingError_DetailFirst(status, detail, message) ==
    LET msg == Or(GetInner(detail, "message"),
                  Or(message,
                     StrI("Billing Error: " \o NumToString(status.n))))
    IN  IF IsThrow(msg) THEN Prim(Leaf("throw", "TypeError", 0))
        ELSE Obj("BillingError", UndefI, status, msg, UndefI, detail)

\* new BillingError(status, detail, message): the instance, or Throw when
\* detail.message is read on a null/undefined detail.
BillingError(status, detail, message) ==
    LET msg == Or(message,
                  Or(GetInner(detail, "message"),
                     StrI("Billing Error: " \o NumToString(status.n))))
    IN  IF IsThrow(msg) THEN Prim(Leaf("throw", "TypeError", 0))
        ELSE Obj("BillingError", UndefI, status, msg, UndefI, detail)

----------------------------------------------------------------------------
(* lib/supabase/client                                                     *)

\* s.startsWith(p)
StartsWith(s, p) == Len(s) >= Len(p) /\ SubSeq(s, 1, Len(p)) = p

\* The two arguments createClient hands to createBrowserClient.
createClient(e) ==
    LET supabaseUrl == e.url
        supabaseAnonKey == e.key
    IN  [url |-> IF Truthy(supabaseUrl) /\ ~StartsWith(supabaseUrl.s, "http")
                 THEN Str("http://" \o supabaseUrl.s)
                 ELSE supabaseUrl,
         key |-> supabaseAnonKey]

----------------------------------------------------------------------------
(* lib/api-client.ts: the invocation wrapper.  Only its option and result  *)
(* types are in the source; its behaviour is taken from the design text:   *)
(* one outstanding call per invocation, an optional timer racing the       *)
(* network response, the first of the two deciding the ApiResponse.        *)

MaxCalls == 2
Calls == 1 .. MaxCalls
ResponseStatuses == {200, 404, 408, 500}

NoOutcome == [success |-> FALSE, kind |-> "none", status |-> 0]
IdleCall == [st |-> "idle", timeout |-> FALSE, first |-> "none", late |-> 0,
             outcome |-> NoOutcome]

\* ApiResponse of a call whose response arrived with the given status.
ResponseOutcome(status) ==
    IF status >= 200 /\ status < 300
    THEN [success |-> TRUE, kind |-> "data", status |-> status]
    ELSE [success |-> FALSE, kind |-> "response", status |-> status]

\* ApiResponse of a call that failed at the transport level or timed out.
NetworkOutcome == [success |-> FALSE, kind |-> "network", status |-> 0]

\* A late response overwriting the result already returned.
AfterReturn_Overwrite(c, status) ==
    [c EXCEPT !.late = status, !.outcome = ResponseOutcome(status)]

\* What the wrapper does with a response that arrives after it has returned.
AfterReturn(c, status) == [c EXCEPT !.late = status]

----------------------------------------------------------------------------
(* Inputs                                                                  *)

MaxStatus == 505
TableCodes == {400, 401, 403, 404, 408, 409, 422, 429, 500, 502, 503, 504}

Responses ==
    {UndefI, NullI, StrI("raw"), Obj1(Undef, Undef), Obj1(Str("404"), Undef),
     Obj1(Num(0), Undef), Obj1(Num(404), Undef), Obj1(Num(418), Str("teapot"))}
Statuses == {UndefI, NullI, NumI(0), NumI(404), NumI(418), StrI("404")}
Messages == {UndefI, StrI(""), StrI("m"), NumI(5), Obj1(Undef, Undef)}
ErrorFields ==
    {UndefI, NullI, StrI(""), StrI("oops"), NumI(0), NumI(7), Lift(Bool(TRUE)),
     Lift(Bool(FALSE)), Obj1(Undef, Undef), Obj1(Undef, Str("oops2")),
     Obj1(Undef, Str("")), Obj1(Undef, Num(5))}
Details ==
    {UndefI, NullI, Obj1(Undef, Undef), Obj1(Undef, Str("")), Obj1(Undef, Str("X")),
     Obj1(Undef, Str("Billing issue detected"))}

Primitives ==
    {Prim(Undef), Prim(Null), Prim(Str("")), Prim(Str("some string")),
     Prim(Num(0)), Prim(Num(42)), Prim(Bool(TRUE)), Prim(Bool(FALSE))}
PlainObjects ==
    {Obj("Object", r, s, m, e, UndefI) :
        r \in Responses, s \in Statuses, m \in Messages, e \in ErrorFields}
ResponseObjects ==
    {Obj("Object", Obj1(Num(k), Undef), UndefI, UndefI, UndefI, UndefI) : k \in 0 .. MaxStatus}
StatusObjects ==
    {Obj("Object", UndefI, NumI(k), m, e, UndefI) :
        k \in 0 .. MaxStatus, m \in {UndefI, StrI("m")}, e \in {UndefI, StrI("oops")}}
ErrorInstances ==
    {Obj("Error", r, s, m, UndefI, UndefI) :
        r \in {UndefI, Obj1(Num(404), Undef)}, s \in {UndefI, NumI(0), NumI(500)},
        m \in {StrI(""), StrI("boom")}}
BillingInstances ==
    {Obj("BillingError", UndefI, NumI(402), m, UndefI, d) :
        m \in {StrI(""), StrI("Y")}, d \in Details}
ClassifierInputs ==
    Primitives \cup PlainObjects \cup ResponseObjects \cup StatusObjects
        \cup ErrorInstances \cup BillingInstances

BillingArgs ==
    [status : {NumI(0), NumI(402), NumI(429)},
     detail : Details,
     message : {UndefI, StrI(""), StrI("Y"), StrI("Billing issue detected")}]

Urls ==
    {Undef, Str(""), Str("localhost:54321"), Str("127.0.0.1:54321"),
     Str("http://localhost:54321"), Str("https://project.supabase.co"),
     Str("httphost:8000"), Str("htt"), Str("ws://localhost:54321")}
Keys == {Undef, Str(""), Str("anon-key")}

----------------------------------------------------------------------------
(* The state machine                                                       *)

None      == Leaf("none", "", 0)
NoValue   == Prim(None)
NotCalled == Lift(None)
NoArgs    == [status |-> UndefI, detail |-> UndefI, message |-> UndefI]
NoEnv     == [url |-> None, key |-> None]
NoClient  == [url |-> None, key |-> None]
NoCalls   == [i \in Calls |-> IdleCall]

InitClassifier ==
    /\ pc = "call" /\ error \in ClassifierInputs /\ result = NotCalled
    /\ args = NoArgs /\ mutated = FALSE
    /\ env = NoEnv /\ client = NoClient /\ calls = NoCalls

InitBilling ==
    /\ pc = "new" /\ args \in BillingArgs /\ error = NoValue /\ result = NotCalled
    /\ mutated = FALSE
    /\ env = NoEnv /\ client = NoClient /\ calls = NoCalls

InitClient ==
    /\ pc = "config" /\ env \in [url : Urls, key : Keys] /\ client = NoClient
    /\ error = NoValue /\ result = NotCalled /\ args = NoArgs /\ mutated = FALSE
    /\ calls = NoCalls

InitWrapper ==
    /\ pc = "wrapper" /\ calls = NoCalls
    /\ error = NoValue /\ result = NotCalled /\ args = NoArgs /\ mutated = FALSE
    /\ env = NoEnv /\ client = NoClient

Init == InitClassifier \/ InitBilling \/ InitClient \/ InitWrapper

\* const message = extractErrorMessage(error)
Classify ==
    /\ pc \in {"call", "constructed"}
    /\ result' = extractErrorMessage(error)
    /\ pc' = IF pc = "call" THEN "returned" ELSE "classified"
    /\ UNCHANGED <<error, args, mutated, env, client, calls>>

\* new BillingError(args.status, args.detail, args.message)
Construct ==
    /\ pc = "new"
    /\ LET e == BillingError(args.status, args.detail, args.message)
       IN  /\ error' = e
           /\ pc' = IF IsThrow(e) THEN "threw" ELSE "constructed"
    /\ UNCHANGED <<result, args, mutated, env, client, calls>>

\* e.message = m, on an instance already constructed
AssignMessage(m) ==
    /\ pc = "constructed"
    /\ error.message # m
    /\ error' = [error EXCEPT !.message = m]
    /\ mutated' = TRUE
    /\ UNCHANGED <<pc, result, args, env, client, calls>>

\* e.detail = d, on an instance already constructed
AssignDetail(d) ==
    /\ pc = "constructed"
    /\ error.detail # d
    /\ error' = [error EXCEPT !.detail = d]
    /\ mutated' = TRUE
    /\ UNCHANGED <<pc, result, args, env, client, calls>>

\* createClient()
CreateClient ==
    /\ pc = "config"
    /\ client' = createClient(env)
    /\ pc' = "created"
    /\ UNCHANGED <<error, result, args, mutated, env, calls>>

\* invoke(request, {timeout})
Invoke(i, t) ==
    /\ pc = "wrapper"
    /\ calls[i].st = "idle"
    /\ calls' = [calls EXCEPT ![i] = [@ EXCEPT !.st = "pending", !.timeout = t]]
    /\ UNCHANGED <<pc, error, result, args, mutated, env, client>>

\* the network response resolves first
ResponseArrives(i, status) ==
    /\ pc = "wrapper"
    /\ calls[i].st = "pending"
    /\ calls' = [calls EXCEPT ![i] = [@ EXCEPT !.st = "returned", !.first = "response",
                                                !.outcome = ResponseOutcome(status)]]
    /\ UNCHANGED <<pc, error, result, args, mutated, env, client>>

\* the timer resolves first
TimerFires(i) ==
    /\ pc = "wrapper"
    /\ calls[i].st = "pending"
    /\ calls[i].timeout
    /\ calls' = [calls EXCEPT ![i] = [@ EXCEPT !.st = "returned", !.first = "timer",
                                                !.outcome = NetworkOutcome]]
    /\ UNCHANGED <<pc, error, result, args, mutated, env, client>>

\* the transport fails (server unreachable, connection reset)
TransportFails(i) ==
    /\ pc = "wrapper"
    /\ calls[i].st = "pending"
    /\ calls' = [calls EXCEPT ![i] = [@ EXCEPT !.st = "returned", !.first = "transport",
                                                !.outcome = NetworkOutcome]]
    /\ UNCHANGED <<pc, error, result, args, mutated, env, client>>

\* the abandoned call's response arrives after the timeout was returned
LateResponse(i, status) ==
    /\ pc = "wrapper"
    /\ calls[i].st = "returned"
    /\ calls[i].first = "timer"
    /\ calls[i].late = 0
    /\ calls' = [calls EXCEPT ![i] = AfterReturn(@, status)]
    /\ UNCHANGED <<pc, error, result, args, mutated, env, client>>

Next ==
    \/ Classify
    \/ Construct
    \/ \E m \in {StrI(""), StrI("Z")} : AssignMessage(m)
    \/ \E d \in Details : AssignDetail(d)
    \/ CreateClient
    \/ \E i \in Calls, t \in BOOLEAN : Invoke(i, t)
    \/ \E i \in Calls, status \in ResponseStatuses : ResponseArrives(i, status)
    \/ \E i \in Calls : TimerFires(i)
    \/ \E i \in Calls : TransportFails(i)
    \/ \E i \in Calls, status \in ResponseStatuses : LateResponse(i, status)

Spec == Init /\ [][Next]_vars

----------------------------------------------------------------------------
(* Properties                                                              *)

\* The status -> message table as the design states it.
StatusTable ==
    {<<400, "Invalid request. Please check your input and try again.">>,
     <<401, "Authentication required. Please sign in again.">>,
     <<403, "Access denied. You don't have permission to perform this action.">>,
     <<404, "The requested resource was not found.">>,
     <<408, "Request timeout. Please try again.">>,
     <<409, "Conflict detected. The resource may have been modified by another user.">>,
     <<422, "Invalid data provided. Please check your input.">>,
     <<429, "Too many requests. Please wait a moment and try again.">>,
     <<500, "Server error. Our team has been notified.">>,
     <<502, "Service temporarily unavailable. Please try again in a moment.">>,
     <<503, "Service maintenance in progress. Please try again later.">>,
     <<504, "Request timeout. The server took too long to respond.">>}
TableMessage(s) ==
    IF s \in TableCodes
    THEN (CHOOSE row \in StatusTable : row[1] = s)[2]
    ELSE "An unexpected error occurred. Please try again."

NonErrorObject(v) == v.t = "object" /\ ~InstanceOf(v, "Error")
HasResponseStatus(v) ==
    NonErrorObject(v) /\ v.response.t = "object" /\ v.response.status.t = "number"
HasBareStatus(v) ==
    NonErrorObject(v) /\ v.response = UndefI /\ v.status.t = "number"

\* C1: a non-Error value carrying a response object with numeric status s is
\* classified as the table's message for s when s is listed, and as the
\* default 'An unexpected error occurred. Please try again.' otherwise.
C1_ResponseStatusLookup ==
    (pc = "returned" /\ HasResponseStatus(error))
        => result = StrI(TableMessage(error.response.status.n))

C1_Witness ==
    /\ pc = "returned" /\ HasResponseStatus(error)
    /\ error.response.status.n = 408
    /\ result = StrI("Request timeout. Please try again.")

\* C2: whatever the input, extractErrorMessage returns a non-empty string.
C2_NonEmptyString ==
    pc = "returned" => (result.t = "string" /\ result.s # "")

\* C3: extractErrorMessage never raises: for every input shape the call
\* completes by returning a value.
C3_NeverThrows ==
    pc \in {"returned", "classified"} => ~IsThrow(result)

C3_Witness ==
    /\ pc = "returned" /\ error = Prim(Null)
    /\ result = StrI("An unexpected error occurred")

\* A message counts as present when it is a non-empty string.
Present(m) == m.t = "string" /\ m.s # ""
DetailMessage(d) == IF d.t = "object" THEN Lift(d.message) ELSE UndefI

\* C4: for a BillingError e made by the constructor, extractErrorMessage(e)
\* is e.detail.message when that is present, else e.message when that is
\* present, else the literal 'Billing issue detected'.
C4_BillingFallbackChain ==
    pc = "classified" =>
        LET dm == DetailMessage(error.detail)
        IN  /\ Present(dm) => result = dm
            /\ (~Present(dm) /\ Present(error.message)) => result = error.message
            /\ (~Present(dm) /\ ~Present(error.message))
                   => result = StrI("Billing issue detected")

C4_Witness ==
    /\ pc = "classified" /\ ~mutated
    /\ args.message = UndefI
    /\ error.detail = Obj1(Undef, Str("X"))
    /\ result = StrI("X")

\* C5: resolution is first-match in the order BillingError, Error instance,
\* response, bare status, string, message field, error field, default: an
\* Error instance returns its own message whatever else it carries, a
\* non-Error value with response.status = a and a bare status returns the
\* table message for a, and a non-Error value with a bare numeric status and
\* a message field returns the table message for the status.
C5_FirstMatchOrder ==
    pc = "returned" =>
        /\ (InstanceOf(error, "Error") /\ ~InstanceOf(error, "BillingError"))
               => result = error.message
        /\ HasResponseStatus(error)
               => result = StrI(TableMessage(error.response.status.n))
        /\ (HasBareStatus(error) /\ error.message # UndefI)
               => result = StrI(TableMessage(error.status.n))

\* C6: a non-Error value with no response and a bare numeric status s (any
\* number, 0 included) is classified by the status lookup for s, whatever
\* message or error fields it has.
C6_BareStatusLookup ==
    (pc = "returned" /\ HasBareStatus(error))
        => result = StrI(TableMessage(error.status.n))

OnlyErrorField(v) ==
    /\ NonErrorObject(v)
    /\ v.response = UndefI /\ v.status = UndefI /\ v.message = UndefI
    /\ v.error # UndefI

\* C7 as stated: with only an error field, a string error (the empty string
\* included) is returned verbatim, an object error with a message field
\* gives that message, and anything else gives 'Unknown error'.
C7_ErrorFieldAsStated ==
    (pc = "returned" /\ OnlyErrorField(error)) =>
        IF IsString(error.error) THEN result = error.error
        ELSE IF error.error.t = "object" /\ error.error.message # Undef
             THEN result = Lift(error.error.message)
             ELSE result = StrI("Unknown error")

\* C7 (amended): with only an error field, a non-empty string error is
\* returned verbatim; a truthy non-string error gives its message field when
\* that is truthy and 'Unknown error' otherwise; a falsy error (empty string,
\* 0, false, null) gives 'An unexpected error occurred'.
C7_ErrorField ==
    (pc = "returned" /\ OnlyErrorField(error)) =>
        IF ~Truthy(error.error) THEN result = StrI("An unexpected error occurred")
        ELSE IF IsString(error.error) THEN result = error.error
        ELSE IF error.error.t = "object" /\ Truthy(Lift(error.error.message))
             THEN result = Lift(error.error.message)
             ELSE result = StrI("Unknown error")

C7_Witness ==
    /\ pc = "returned" /\ OnlyErrorField(error)
    /\ error.error = StrI("oops")
    /\ result = StrI("oops")

\* A URL has a scheme when "://" follows a non-empty prefix.
HasScheme(u) == \E i \in 2 .. Len(u) : i + 2 <= Len(u) /\ SubSeq(u, i, i + 2) = "://"
HasHttpScheme(u) == StartsWith(u, "http://") \/ StartsWith(u, "https://")

\* C8: createClient hands createBrowserClient 'http://' + u for every
\* configured (non-empty) URL u without a scheme, u itself when u has an
\* http:// or https:// scheme, and the public key unchanged.
C8_SchemePrefixed ==
    pc = "created" =>
        /\ (Truthy(env.url) /\ ~HasScheme(env.url.s))
               => client.url = Str("http://" \o env.url.s)
        /\ (env.url.t = "string" /\ HasHttpScheme(env.url.s))
               => client.url = env.url
        /\ client.key = env.key

\* C9: when the timer fires before the response, the wrapper's result is
\* {success: false} with a network-kind error, and a response arriving
\* afterwards does not change it.
C9_TimeoutWins ==
    \A i \in Calls :
        calls[i].first = "timer" =>
            /\ calls[i].st = "returned"
            /\ calls[i].outcome.success = FALSE
            /\ calls[i].outcome.kind = "network"

C9_Witness ==
    \E i \in Calls :
        /\ calls[i].first = "timer" /\ calls[i].late = 404
        /\ calls[i].outcome.kind = "network"

ExpectedDefault(status) ==
    CASE status = NumI(0)   -> StrI("Billing Error: 0")
      [] status = NumI(402) -> StrI("Billing Error: 402")
      [] status = NumI(429) -> StrI("Billing Error: 429")
      [] OTHER              -> StrI("Billing Error: ?")

FirstPresent(a, b, c) == IF Present(a) THEN a ELSE IF Present(b) THEN b ELSE c

\* C10: a constructed BillingError whose fields were not assigned afterwards
\* has a non-empty message equal to the first non-empty of (message
\* argument, detail.message, 'Billing Error: <status>'), and status and
\* detail as given; extractErrorMessage returns its detail.message when
\* non-empty and otherwise its message, never the 'Billing issue detected'
\* fallback.
C10_ConstructedMessage ==
    (pc \in {"constructed", "classified"} /\ ~mutated) =>
        /\ Present(error.message)
        /\ error.message = FirstPresent(args.message, DetailMessage(args.detail),
                                        ExpectedDefault(args.status))
        /\ error.status = args.status
        /\ error.detail = args.detail
        /\ pc = "classified" =>
              /\ result = FirstPresent(DetailMessage(args.detail), error.message,
                                       StrI("unreachable"))
              /\ result = StrI("Billing issue detected")
                    => StrI("Billing issue detected")
                           \in {args.message, DetailMessage(args.detail)}

C10_Witness ==
    /\ pc = "classified" /\ ~mutated
    /\ args.message = StrI("Y")
    /\ args.detail = Obj1(Undef, Str("X"))
    /\ error.message = StrI("Y")
    /\ result = StrI("X")

====
